---- MODULE Spec2Model ----
(***************************************************************************)
(* Model of the adaptive slicing pipeline of the repository:               *)
(*   ingestion/adaptive_slicer.py  AdaptiveSlicer                          *)
(*   ingestion/ingestor.py         VideoIngestor (holds ONE slicer and ONE *)
(*                                 frames directory for all its videos)    *)
(*                                                                         *)
(* Abstractions, stated once:                                              *)
(*  - A frame is a uniform grey raster, represented by its intensity       *)
(*    (0..255).  For such frames cv2.absdiff + np.mean is |a - b|.         *)
(*  - Scores are therefore integers.  The threshold is a real number       *)
(*    (mean + 3*std); the model keeps floor(4 * threshold), i.e. the       *)
(*    threshold in quarter units rounded down.  For an integer score m,    *)
(*       m > t        <=>  4*m > floor(4*t)                                *)
(*       m > 0.8 * t  <=>  5*m > floor(4*t)                                *)
(*    so both comparisons of the code are decided exactly (IEEE rounding   *)
(*    of the float operations is not modelled).                            *)
(*  - A timestamp count/fps is kept in ticks of 1/TicksPerSecond seconds;  *)
(*    every fps of FpsValues divides TicksPerSecond, so it is exact.       *)
(*  - A file name "MM_SS_mmm.jpg" is the tuple <<MM, SS, mmm>> and         *)
(*    "MM_SS_mmm_<count>.jpg" is <<MM, SS, mmm, count>>.                   *)
(*    Equal tuples <=> equal strings.                                      *)
(*  - The rolling window of the code holds 100 scores; the model scales    *)
(*    the window down (history_size) so that eviction is reachable.        *)
(*                                                                         *)
(* Downstream of the slicer:                                               *)
(*   ingestion/ingestor.py         generate_segment_summaries, process_video*)
(*   reasoning/graph_grounding.py  VideoKnowledgeGraph                     *)
(*   index/vector_store.py         VectorStore (metadata only)             *)
(*   reasoning/vlm_orchestrator.py VLMOrchestrator.generate_answer         *)
(*  - Strings that are searched or built from data (labels, queries, node  *)
(*    ids) are sequences of one-character strings; an answer is the        *)
(*    sequence of its literal and computed pieces.                         *)
(*  - A graph file is the JSON document as ordered key/value pairs;        *)
(*    load reads it back by key.  A path never written has no file.        *)
(*  - Embeddings and the similarity search are not modelled; a uuid4 id    *)
(*    is a fresh number.                                                   *)
(*  - SpecPipeline is one call on a newly constructed VideoIngestor, with  *)
(*    the slicer run computed by the function process_video, which is the  *)
(*    loop of the actions ReadFirstFrame / ProcessFrame.                   *)
(***************************************************************************)
EXTENDS Integers, Sequences, FiniteSets, TLC

(* ---------------------------- bounds ----------------------------------- *)
\* frames read per invocation of process_video, at most
MaxFrames == 4
\* invocations of process_video on the one slicer instance, at most
MaxRuns == 2
\* rolling window capacity (100 in the code, scaled down)
history_size == 3

\* metadata records held by the vector store, at most
MaxStored == 3

\* summaries in a list handed to build_graph, at most (the three-segment
\* scenario list is an input besides)
MaxSummaries == 2

\* records in a list handed directly to generate_segment_summaries, at most
MaxRecords == 3

\* frames of a video given to a new ingestor, at most
MaxVideoLen == 5

(* ------------------------ program constants ---------------------------- *)
threshold_multiplier == 3
min_threshold == 10
motion_persistence == 3
\* grounding_results[:3] and unique_ts[:8] of generate_answer
top_nodes_limit == 3
unique_ts_limit == 8

(* --------------------------- input domains ----------------------------- *)
\* intensities of the uniform frames a video may contain (black, two dark greys):
\* the differences 9 and 18 lie on both sides of min_threshold
Levels == {0, 9, 18}
\* frame rates of the videos: above 1000 fps consecutive frames share a
\* millisecond bucket, the case the collision handling is written for
FpsValues == {4000}
TicksPerSecond == CHOOSE m \in FpsValues : \A f \in FpsValues : f <= m

\* prev_frame is a sequence: None (no frame yet) or <<intensity>>
None == <<>>

VARIABLES
    mad_history,      \* self.mad_history of the slicer instance
    files,            \* names present in the frames directory
    pc,               \* "idle" (no invocation active) or "loop" (inside the while)
    fps,              \* cap.get(CAP_PROP_FPS) of the open video
    prev_frame,       \* local prev_frame (None or <<intensity>>)
    count,            \* local count
    motion_counter,   \* local motion_counter
    segment_id,       \* local segment_id
    extracted_data,   \* local extracted_data (list of records)
    mad,              \* local mad of the last scored transition
    threshold,        \* local threshold of the last scored transition, floor(4*t)
    is_scene_cut,     \* local is_scene_cut
    is_high_motion,   \* local is_high_motion
    runs,             \* number of invocations started on this instance
    frames_in,        \* observer: frames read so far by this invocation
    history_at_start, \* observer: mad_history when this invocation started
    scored,           \* observer: scores appended by this invocation, in order
    qualified,        \* observer: per scored transition, score > 0.8*threshold
    last_run,         \* observer: input and result of the previous invocation
    summaries,        \* the list returned by generate_segment_summaries
    nodes,            \* self.nodes of a VideoKnowledgeGraph
    edges,            \* self.edges of a VideoKnowledgeGraph
    kg_files,         \* the graph files on disk: path -> content, or NoFile
    collection,       \* the metadata records of the vector store, in insertion order
    call,             \* observer: operation and arguments of the last call
    result,           \* value returned by the last call
    session_state     \* st.session_state of the app's browser session

\* the state of the slicer and of the frames directory
slicer_vars == <<mad_history, files, pc, fps, prev_frame, count, motion_counter,
                 segment_id, extracted_data, mad, threshold, is_scene_cut,
                 is_high_motion, runs, frames_in, history_at_start, scored,
                 qualified, last_run>>

\* the state downstream of the slicer: summaries, graph, graph files, store
downstream_vars == <<summaries, nodes, edges, kg_files, collection,
                     call, result, session_state>>

vars == <<mad_history, files, pc, fps, prev_frame, count, motion_counter,
          segment_id, extracted_data, mad, threshold, is_scene_cut,
          is_high_motion, runs, frames_in, history_at_start, scored,
          qualified, last_run, summaries, nodes, edges, kg_files,
          collection, call, result, session_state>>

(* ----------------------------- helpers --------------------------------- *)
Abs(x) == IF x < 0 THEN -x ELSE x

RECURSIVE SumSeq(_)
SumSeq(s) == IF s = <<>> THEN 0 ELSE Head(s) + SumSeq(Tail(s))

RECURSIVE SumSq(_)
SumSq(s) == IF s = <<>> THEN 0 ELSE Head(s) * Head(s) + SumSq(Tail(s))

\* floor of the square root, by bisection on [lo, hi)
RECURSIVE SqrtBisect(_, _, _)
SqrtBisect(x, lo, hi) ==
    IF hi - lo <= 1 THEN lo
    ELSE LET mid == (lo + hi) \div 2
         IN IF mid * mid <= x THEN SqrtBisect(x, mid, hi)
                              ELSE SqrtBisect(x, lo, mid)

ISqrt(x) == SqrtBisect(x, 0, 46341)

Last(s) == s[Len(s)]

(* ------------------------- AdaptiveSlicer ------------------------------ *)
\* calculate_mad: mean absolute difference of two (uniform) frames
calculate_mad(frame1, frame2) == Abs(frame1 - frame2)

\* mean + k*std of the window in quarter units, rounded down:
\* mean = S/n, std = sqrt(n*Q - S^2)/n  (np.std is the population deviation)
RawThreshold4(hist) ==
    LET n == Len(hist)
        S == SumSeq(hist)
        Q == SumSq(hist)
        D == n * Q - S * S
    IN  (4 * S + ISqrt(16 * threshold_multiplier * threshold_multiplier * D)) \div n

Max(a, b) == IF a >= b THEN a ELSE b

\* variant: the floor at min_threshold is forgotten
get_dynamic_threshold_noFloor(hist) ==
    IF hist = <<>> THEN 4 * min_threshold ELSE RawThreshold4(hist)

\* get_dynamic_threshold, result in quarter units rounded down
get_dynamic_threshold(hist) ==
    IF hist = <<>> THEN 4 * min_threshold
    ELSE Max(RawThreshold4(hist), 4 * min_threshold)

\* format_timestamp(count / fps): <<minutes, secs, millis>>
format_timestamp(cnt, rate) ==
    << cnt \div (60 * rate),
       (cnt \div rate) % 60,
       ((cnt % rate) * 1000) \div rate >>

\* variant: the time in whole seconds
timestamp_secs_wholeSeconds(cnt, rate) == (cnt \div rate) * TicksPerSecond

\* variant: the time of the frame before
timestamp_secs_previous(cnt, rate) == (cnt - 1) * (TicksPerSecond \div rate)

\* timestamp_secs = count / fps, in ticks
timestamp_secs(cnt, rate) == cnt * (TicksPerSecond \div rate)

\* variant: a full window drops the newest score instead of the oldest
UpdateHistory_dropNewest(hist, m) ==
    LET h == Append(hist, m)
    IN  IF Len(h) > history_size THEN SubSeq(h, 1, history_size) ELSE h

\* "Update history": append, then evict the oldest when over capacity
UpdateHistory(hist, m) ==
    LET h == Append(hist, m)
    IN  IF Len(h) > history_size THEN Tail(h) ELSE h

\* mad > threshold
ExceedsThreshold(m, thr4) == 4 * m > thr4

\* variant: the motion level is taken from the minimum threshold
ExceedsMotionLevel_floor(m, thr4) == 5 * m > 4 * min_threshold

\* variant: the motion level is half the threshold
ExceedsMotionLevel_half(m, thr4) == 8 * m > thr4

\* mad > threshold * 0.8
ExceedsMotionLevel(m, thr4) == 5 * m > thr4

\* variant: the counter is not reset by a non-qualifying transition
UpdateMotionCounter_noReset(mc, m, thr4) ==
    IF ExceedsMotionLevel(m, thr4) THEN mc + 1 ELSE mc

\* variant: a scene cut resets the counter
UpdateMotionCounter_resetOnCut(mc, m, thr4) ==
    IF ExceedsThreshold(m, thr4) THEN 0
    ELSE IF ExceedsMotionLevel(m, thr4) THEN mc + 1 ELSE 0

\* variant: the counter starts again after a record was emitted
UpdateMotionCounter_restartOnRecord(mc, m, thr4) ==
    IF ~ExceedsMotionLevel(m, thr4) THEN 0
    ELSE IF mc >= motion_persistence THEN 1 ELSE mc + 1

\* "High Motion logic": the counter after the transition
UpdateMotionCounter(mc, m, thr4) ==
    IF ExceedsMotionLevel(m, thr4) THEN mc + 1 ELSE 0

\* variant: every retained frame opens a new segment
UpdateSegmentId_everyRecord(sid, cut) == sid + 1

\* variant: a scene cut skips an id
UpdateSegmentId_double(sid, cut) == IF cut THEN sid + 2 ELSE sid

\* segment_id after a retained transition ("if is_scene_cut: segment_id += 1")
UpdateSegmentId(sid, cut) == IF cut THEN sid + 1 ELSE sid

\* the path the retained frame is written to
FramePath(dir, cnt, rate) ==
    LET ts == format_timestamp(cnt, rate)
    IN  IF ts \in dir THEN Append(ts, cnt) ELSE ts

\* variant: the two type labels are swapped
KeyframeRecord_swappedType(cnt, rate, path, sid, cut) ==
    [ timestamp  |-> timestamp_secs(cnt, rate),
      frame_path |-> path,
      segment_id |-> sid,
      type       |-> IF cut THEN "high_motion" ELSE "scene_cut" ]

\* variant: the record is built before the segment id is incremented
KeyframeRecord_staleSegment(cnt, rate, path, sid, cut) ==
    [ timestamp  |-> timestamp_secs(cnt, rate),
      frame_path |-> path,
      segment_id |-> IF cut THEN sid - 1 ELSE sid,
      type       |-> IF cut THEN "scene_cut" ELSE "high_motion" ]

\* the metadata record appended for a retained frame
KeyframeRecord(cnt, rate, path, sid, cut) ==
    [ timestamp  |-> timestamp_secs(cnt, rate),
      frame_path |-> path,
      segment_id |-> sid,
      type       |-> IF cut THEN "scene_cut" ELSE "high_motion" ]

\* the lists of at most n elements of S
RECURSIVE ListsUpTo(_, _)
ListsUpTo(S, n) ==
    IF n = 0 THEN {<<>>}
    ELSE LET shorter == ListsUpTo(S, n - 1)
         IN  shorter \cup {Append(l, x) : l \in shorter, x \in S}

\* the files a graph is saved to and loaded from; one is never written
KgPaths == {"video_kg.json", "absent_kg.json"}
SavePaths == {"video_kg.json"}
NoFile == <<"no file">>
NoCall == [op |-> "none"]

(* --------------------------- VectorStore ------------------------------- *)
\* inputs of the store operations; timestamps and window widths are in ticks
StoreVideos == {"a.mp4", "b.mp4"}
StoreTimes == {0, 1, 2, 3}
StoreWindows == {0, 2}

\* os.path.join("index", f"{uploaded_video.name}_kg.json") for the names of
\* the uploaded files
SessionKgPath(name) ==
    CASE name = "a.mp4" -> "index/a.mp4_kg.json"
      [] name = "b.mp4" -> "index/b.mp4_kg.json"

SessionKgPaths == {SessionKgPath(name) : name \in StoreVideos}

\* every path at which the program reads or writes a graph file
FilePaths == KgPaths \cup SessionKgPaths

\* a frame as add_frames receives it (the embedding is not modelled)
StoreFrame(vid, ts) == [timestamp |-> ts, frame_path |-> <<vid, ts>>]

\* variant: a frame that is already stored for the video is replaced
add_frames_upsert(coll, video_id, processed_data) ==
    LET Incoming(e) == \E i \in 1..Len(processed_data) :
                           /\ e.meta.video_id = video_id
                           /\ e.meta.frame_path = processed_data[i].frame_path
        kept == SelectSeq(coll, LAMBDA e : ~Incoming(e))
    IN  kept \o [i \in 1..Len(processed_data) |->
                   [ id   |-> Len(coll) + i,
                     meta |-> [ video_id   |-> video_id,
                                timestamp  |-> processed_data[i].timestamp,
                                frame_path |-> processed_data[i].frame_path ] ]]

\* add_frames: one entry per frame, under a fresh id, appended to the collection
add_frames(coll, video_id, processed_data) ==
    coll \o [i \in 1..Len(processed_data) |->
               [ id   |-> Len(coll) + i,
                 meta |-> [ video_id   |-> video_id,
                            timestamp  |-> processed_data[i].timestamp,
                            frame_path |-> processed_data[i].frame_path ] ]]

\* collection.get(where={"video_id": video_id})['metadatas']
RECURSIVE GetWhereVideo(_, _)
GetWhereVideo(coll, video_id) ==
    IF coll = <<>> THEN <<>>
    ELSE IF Head(coll).meta.video_id = video_id
         THEN <<Head(coll).meta>> \o GetWhereVideo(Tail(coll), video_id)
         ELSE GetWhereVideo(Tail(coll), video_id)

\* variant: the bounds of the window are excluded
InWindow_strict(ts, best_match_timestamp, window_seconds) ==
    Abs(ts - best_match_timestamp) < window_seconds

\* abs(ts - best_match_timestamp) <= window_seconds
InWindow(ts, best_match_timestamp, window_seconds) ==
    Abs(ts - best_match_timestamp) <= window_seconds

RECURSIVE FilterWindow(_, _, _)
FilterWindow(metas, best, w) ==
    IF metas = <<>> THEN <<>>
    ELSE IF InWindow(Head(metas).timestamp, best, w)
         THEN <<Head(metas)>> \o FilterWindow(Tail(metas), best, w)
         ELSE FilterWindow(Tail(metas), best, w)

\* list.sort(key=timestamp): stable, ascending; insertion after the equal keys
RECURSIVE InsertByTimestamp(_, _)
InsertByTimestamp(sorted, m) ==
    IF sorted = <<>> THEN <<m>>
    ELSE IF Head(sorted).timestamp <= m.timestamp
         THEN <<Head(sorted)>> \o InsertByTimestamp(Tail(sorted), m)
         ELSE <<m>> \o sorted

RECURSIVE SortByTimestamp(_)
SortByTimestamp(metas) ==
    IF metas = <<>> THEN <<>>
    ELSE InsertByTimestamp(SortByTimestamp(SubSeq(metas, 1, Len(metas) - 1)),
                           Last(metas))

\* get_temporal_context
get_temporal_context(coll, best_match_timestamp, video_id, window_seconds) ==
    SortByTimestamp(FilterWindow(GetWhereVideo(coll, video_id),
                                 best_match_timestamp, window_seconds))

(* ------------------------ VideoKnowledgeGraph -------------------------- *)
\* strings that are searched or compared by content are sequences of characters
UpperChars == <<"A","B","C","D","E","F","G","H","I","J","K","L","M",
                "N","O","P","Q","R","S","T","U","V","W","X","Y","Z">>
LowerChars == <<"a","b","c","d","e","f","g","h","i","j","k","l","m",
                "n","o","p","q","r","s","t","u","v","w","x","y","z">>
DigitChars == <<"0","1","2","3","4","5","6","7","8","9">>

\* str.lower() on one character and on a string
LowerChar(c) ==
    IF \E i \in 1..Len(UpperChars) : UpperChars[i] = c
    THEN LowerChars[CHOOSE i \in 1..Len(UpperChars) : UpperChars[i] = c]
    ELSE c

Lower(str) == [i \in 1..Len(str) |-> LowerChar(str[i])]

\* the decimal rendering of a natural number, as an f-string writes it
RECURSIVE Digits(_)
Digits(n) ==
    IF n < 10 THEN <<DigitChars[n + 1]>>
    ELSE Digits(n \div 10) \o <<DigitChars[(n % 10) + 1]>>

\* variant: the id is the bare segment id
NodeId_bare(sid) == Digits(sid)

\* f"node_{summary['segment_id']}"
NodeId(sid) == <<"n", "o", "d", "e", "_">> \o Digits(sid)

GraphNode(summary) ==
    [ id                   |-> NodeId(summary.segment_id),
      label                |-> summary.summary,
      start_time           |-> summary.start_time,
      end_time             |-> summary.end_time,
      representative_frame |-> summary.representative_frame ]

\* variant: every edge starts at the first node
FollowsEdge_fromFirst(node_list, i, node_id) ==
    [source |-> node_list[1].id, target |-> node_id, type |-> "FOLLOWS"]

\* the edge appended for the summary at position i > first: node i-1 -> node i
FollowsEdge(node_list, i, node_id) ==
    [source |-> node_list[i - 1].id, target |-> node_id, type |-> "FOLLOWS"]

EmptyGraph == [nodes |-> <<>>, edges |-> <<>>]

\* the loop of build_graph from the summary at position i on
RECURSIVE BuildLoop(_, _, _)
BuildLoop(g, segment_summaries, i) ==
    IF i > Len(segment_summaries) THEN g
    ELSE LET node   == GraphNode(segment_summaries[i])
             nodes1 == Append(g.nodes, node)
             edges1 == IF i > 1
                       THEN Append(g.edges, FollowsEdge(nodes1, i, node.id))
                       ELSE g.edges
         IN  BuildLoop([nodes |-> nodes1, edges |-> edges1],
                       segment_summaries, i + 1)

\* variant: the held graph is extended instead of replaced
build_graph_additive(self, segment_summaries) ==
    BuildLoop(self, segment_summaries, 1)

\* build_graph: nodes and edges are emptied, then filled from the summaries
build_graph(self, segment_summaries) ==
    BuildLoop(EmptyGraph, segment_summaries, 1)

\* q in label, for strings
IsSubstring(q, str) ==
    \E k \in 0..(Len(str) - Len(q)) : SubSeq(str, k + 1, k + Len(q)) = q

RECURSIVE SearchLoop(_, _)
SearchLoop(node_list, q) ==
    IF node_list = <<>> THEN <<>>
    ELSE IF IsSubstring(q, Lower(Head(node_list).label))
         THEN <<Head(node_list)>> \o SearchLoop(Tail(node_list), q)
         ELSE SearchLoop(Tail(node_list), q)

\* variant: the label is compared as stored
search_graph_caseSensitive(self, query) ==
    LET RECURSIVE Loop(_)
        Loop(ns) == IF ns = <<>> THEN <<>>
                    ELSE IF IsSubstring(Lower(query), Head(ns).label)
                         THEN <<Head(ns)>> \o Loop(Tail(ns))
                         ELSE Loop(Tail(ns))
    IN  Loop(self.nodes)

\* search_graph
search_graph(self, query) == SearchLoop(self.nodes, Lower(query))

\* json.dump: an object is written as its key/value pairs in insertion order,
\* a list as the list of its elements' documents
NodeDoc(node) ==
    << <<"id", node.id>>, <<"label", node.label>>,
       <<"start_time", node.start_time>>, <<"end_time", node.end_time>>,
       <<"representative_frame", node.representative_frame>> >>

EdgeDoc(edge) ==
    << <<"source", edge.source>>, <<"target", edge.target>>,
       <<"type", edge.type>> >>

json_dump(self) ==
    << <<"nodes", [i \in 1..Len(self.nodes) |-> NodeDoc(self.nodes[i])]>>,
       <<"edges", [i \in 1..Len(self.edges) |-> EdgeDoc(self.edges[i])]>> >>

\* json.load: an object becomes a dict, read by key
DocGet(doc, key) == doc[CHOOSE i \in 1..Len(doc) : doc[i][1] = key][2]

\* variant: start_time and end_time are read from each other's key
NodeOfDoc_swapTimes(doc) ==
    [ id                   |-> DocGet(doc, "id"),
      label                |-> DocGet(doc, "label"),
      start_time           |-> DocGet(doc, "end_time"),
      end_time             |-> DocGet(doc, "start_time"),
      representative_frame |-> DocGet(doc, "representative_frame") ]

NodeOfDoc(doc) ==
    [ id                   |-> DocGet(doc, "id"),
      label                |-> DocGet(doc, "label"),
      start_time           |-> DocGet(doc, "start_time"),
      end_time             |-> DocGet(doc, "end_time"),
      representative_frame |-> DocGet(doc, "representative_frame") ]

EdgeOfDoc(doc) ==
    [ source |-> DocGet(doc, "source"),
      target |-> DocGet(doc, "target"),
      type   |-> DocGet(doc, "type") ]

json_load(doc) ==
    LET ns == DocGet(doc, "nodes")
        es == DocGet(doc, "edges")
    IN  [ nodes |-> [i \in 1..Len(ns) |-> NodeOfDoc(ns[i])],
          edges |-> [i \in 1..Len(es) |-> EdgeOfDoc(es[i])] ]

\* save_graph: the file at path after the call
save_graph(self, fs, path) == [fs EXCEPT ![path] = json_dump(self)]

\* variant: a missing file empties the graph
load_graph_resetMissing(self, fs, path) ==
    IF fs[path] # NoFile THEN json_load(fs[path]) ELSE EmptyGraph

\* load_graph: the graph held after the call
load_graph(self, fs, path) ==
    IF fs[path] # NoFile THEN json_load(fs[path]) ELSE self

(* ------------- AdaptiveSlicer.process_video as a function -------------- *)
\* variant: the list holds the newest record only
AppendRecord_keepNewest(data, record) == <<record>>

\* extracted_data.append(record)
AppendRecord(data, record) == Append(data, record)

\* the while loop over the remaining frames of the video; run holds the
\* instance's history, the frames directory and the locals of process_video
RECURSIVE SliceLoop(_, _, _)
SliceLoop(run, frames, rate) ==
    IF frames = <<>> THEN run
    ELSE IF run.prev_frame = None
    THEN SliceLoop([run EXCEPT !.prev_frame = <<Head(frames)>>,
                               !.count = @ + 1],
                   Tail(frames), rate)
    ELSE LET m    == calculate_mad(run.prev_frame[1], Head(frames))
             thr  == get_dynamic_threshold(run.hist)
             cut  == ExceedsThreshold(m, thr)
             mc   == UpdateMotionCounter(run.motion_counter, m, thr)
             high == mc >= motion_persistence
             sid  == IF cut \/ high THEN UpdateSegmentId(run.segment_id, cut)
                                    ELSE run.segment_id
             path == FramePath(run.dir, run.count, rate)
         IN  SliceLoop(
                 [ hist           |-> UpdateHistory(run.hist, m),
                   scored         |-> Append(run.scored, m),
                   qualified      |-> Append(run.qualified,
                                             ExceedsMotionLevel(m, thr)),
                   dir            |-> IF cut \/ high THEN run.dir \cup {path}
                                                     ELSE run.dir,
                   prev_frame     |-> <<Head(frames)>>,
                   count          |-> run.count + 1,
                   motion_counter |-> mc,
                   segment_id     |-> sid,
                   data           |-> IF cut \/ high
                                      THEN AppendRecord(run.data,
                                             KeyframeRecord(run.count, rate, path,
                                                            sid, cut))
                                      ELSE run.data ],
                 Tail(frames), rate)

\* one call of process_video on an instance with history hist and frames
\* directory dir
process_video(hist, dir, frames, rate) ==
    SliceLoop([ hist |-> hist, dir |-> dir, prev_frame |-> None, count |-> 0,
                motion_counter |-> 0, segment_id |-> 0, data |-> <<>>,
                scored |-> <<>>, qualified |-> <<>> ],
              frames, rate)

(* --------------------------- VideoIngestor ----------------------------- *)
\* f"{t:.2f}" of a time in ticks: seconds rounded to the nearest hundredth
\* (no time of the model lies half-way between two hundredths)
Fmt2(ticks) ==
    LET h == (ticks * 100 + (TicksPerSecond \div 2)) \div TicksPerSecond
    IN  Digits(h \div 100) \o <<".">> \o
        <<DigitChars[((h \div 10) % 10) + 1], DigitChars[(h % 10) + 1]>>

\* the characters of the two type strings
TypeChars(type) ==
    IF type = "scene_cut"
    THEN << "s", "c", "e", "n", "e", "_", "c", "u", "t" >>
    ELSE << "h", "i", "g", "h", "_", "m", "o", "t", "i", "o", "n" >>

\* the summary sentence (an f-string)
SummaryText(sid, n, start, type) ==
    << "S", "e", "g", "m", "e", "n", "t", " " >>
    \o Digits(sid) \o
    << ":", " ", "V", "i", "s", "u", "a", "l", " ", "s", "e", "q",
       "u", "e", "n", "c", "e", " ", "c", "o", "n", "t", "a", "i",
       "n", "i", "n", "g", " " >>
    \o Digits(n) \o
    << " ", "f", "r", "a", "m", "e", "s", " ", "s", "t", "a", "r",
       "t", "i", "n", "g", " ", "a", "t", " " >>
    \o Fmt2(start) \o <<"s", ".", " ", "(">> \o TypeChars(type) \o <<")">>

\* variant: one key per record, repeated ids included
RECURSIVE SegmentKeys_everyRecord(_, _)
SegmentKeys_everyRecord(data, seen) ==
    IF data = <<>> THEN seen
    ELSE SegmentKeys_everyRecord(Tail(data), Append(seen, Head(data).segment_id))

\* the keys of the dict segments, in insertion order
RECURSIVE SegmentKeys(_, _)
SegmentKeys(data, seen) ==
    IF data = <<>> THEN seen
    ELSE LET sid == Head(data).segment_id
         IN  SegmentKeys(Tail(data),
                         IF \E i \in 1..Len(seen) : seen[i] = sid
                         THEN seen ELSE Append(seen, sid))

\* segments[sid]: the records of the segment, in input order
SegmentFrames(data, sid) == SelectSeq(data, LAMBDA d : d.segment_id = sid)

\* variant: the lower middle record is the representative
SegmentSummary_lowerMiddle(sid, frames) ==
    LET rep_frame == frames[((Len(frames) - 1) \div 2) + 1]
    IN  [ segment_id           |-> sid,
          summary              |-> SummaryText(sid, Len(frames),
                                               frames[1].timestamp, rep_frame.type),
          representative_frame |-> rep_frame.frame_path,
          start_time           |-> frames[1].timestamp,
          end_time             |-> Last(frames).timestamp ]

\* variant: start_time and end_time are taken from each other's record
SegmentSummary_swappedTimes(sid, frames) ==
    LET rep_frame == frames[(Len(frames) \div 2) + 1]
    IN  [ segment_id           |-> sid,
          summary              |-> SummaryText(sid, Len(frames),
                                               frames[1].timestamp, rep_frame.type),
          representative_frame |-> rep_frame.frame_path,
          start_time           |-> Last(frames).timestamp,
          end_time             |-> frames[1].timestamp ]

\* the summary of one segment; frames[len(frames)//2] is position k div 2 + 1
SegmentSummary(sid, frames) ==
    LET rep_frame == frames[(Len(frames) \div 2) + 1]
    IN  [ segment_id           |-> sid,
          summary              |-> SummaryText(sid, Len(frames),
                                               frames[1].timestamp, rep_frame.type),
          representative_frame |-> rep_frame.frame_path,
          start_time           |-> frames[1].timestamp,
          end_time             |-> Last(frames).timestamp ]

generate_segment_summaries(data) ==
    LET keys == SegmentKeys(data, <<>>)
    IN  [i \in 1..Len(keys) |->
            SegmentSummary(keys[i], SegmentFrames(data, keys[i]))]

(* --------------------------- VLMOrchestrator --------------------------- *)
\* an answer is the sequence of its pieces, each a literal of the code or a
\* string of characters computed from the data
Lit(str) == <<"lit", str>>
Chars(str) == <<"chars", str>>

NoEvidenceMessage ==
    << Lit("I couldn't find any segment in the video that clearly matches this question.") >>

FallbackMessage ==
    << Lit("I was not able to derive a meaningful answer from the stored video structure.") >>

\* seq[:n]
Take(seq, n) == SubSeq(seq, 1, IF Len(seq) < n THEN Len(seq) ELSE n)

\* sep.join(parts), for parts that are sequences of pieces
RECURSIVE Join(_, _)
Join(sep, parts) ==
    IF parts = <<>> THEN <<>>
    ELSE IF Len(parts) = 1 THEN parts[1]
    ELSE parts[1] \o <<Lit(sep)>> \o Join(sep, Tail(parts))

\* sorted({...}): the elements of a set of numbers in ascending order
RECURSIVE Sorted(_)
Sorted(T) ==
    IF T = {} THEN <<>>
    ELSE LET least == CHOOSE t \in T : \A u \in T : t <= u
         IN  <<least>> \o Sorted(T \ {least})

\* the sentence of one node
NodeSentence(node) ==
    << Lit("Between "), Chars(Fmt2(node.start_time)), Lit("s and "),
       Chars(Fmt2(node.end_time)), Lit("s the video contains: "),
       Chars(node.label) >>

\* the sentences of the nodes that have a non-empty label
RECURSIVE Sentences(_)
Sentences(top_nodes) ==
    IF top_nodes = <<>> THEN <<>>
    ELSE IF Head(top_nodes).label # <<>>
         THEN <<NodeSentence(Head(top_nodes))>> \o Sentences(Tail(top_nodes))
         ELSE Sentences(Tail(top_nodes))

\* the answer built from the timestamps of the context frames
TimestampAnswer(context_frames) ==
    LET unique_ts == Sorted({context_frames[i].timestamp :
                                i \in 1..Len(context_frames)})
        shown      == Take(unique_ts, unique_ts_limit)
        ts_str     == Join(", ", [i \in 1..Len(shown) |->
                                    <<Chars(Fmt2(shown[i])), Lit("s")>>])
    IN  << Lit("I retrieved several relevant moments in the video around these times: ") >>
        \o ts_str \o
        << Lit(". However, without a vision model I can't reliably describe the exact visual content at those timestamps.") >>

\* the text returned for the graph kg, after the optional load
AnswerText(kg, query, context_frames) ==
    LET grounding_results == search_graph(kg, query)
        sentences == Sentences(Take(grounding_results, top_nodes_limit))
    IN  IF grounding_results = <<>> /\ context_frames = <<>>
        THEN NoEvidenceMessage
        ELSE IF grounding_results # <<>> /\ sentences # <<>>
        THEN Join(" ", sentences)
        ELSE IF context_frames # <<>>
        THEN TimestampAnswer(context_frames)
        ELSE FallbackMessage

\* knowledge_graph_path=None
NoPath == ""

\* variant: the context frames are not looked at before giving up
generate_answer_ignoreContext(kg, fs, query, context_frames, knowledge_graph_path) ==
    LET loaded == IF knowledge_graph_path # NoPath
                  THEN load_graph(kg, fs, knowledge_graph_path) ELSE kg
    IN  [ kg     |-> loaded,
          answer |-> IF search_graph(loaded, query) = <<>>
                     THEN NoEvidenceMessage
                     ELSE AnswerText(loaded, query, context_frames) ]

\* generate_answer: the graph held afterwards and the returned text
generate_answer(kg, fs, query, context_frames, knowledge_graph_path) ==
    LET loaded == IF knowledge_graph_path # NoPath
                  THEN load_graph(kg, fs, knowledge_graph_path) ELSE kg
    IN  [ kg     |-> loaded,
          answer |-> AnswerText(loaded, query, context_frames) ]

(* ------------------------------ state ---------------------------------- *)

\* st.session_state as the script initialises it (None is the empty path)
InitialSession ==
    [ processing_state   |-> "idle",
      kg_path            |-> NoPath,
      current_video_name |-> NoPath,
      last_answer        |-> <<>>,
      last_query         |-> <<>> ]

NoRun == [frames |-> <<>>, fps |-> 0, data |-> <<>>, valid |-> FALSE]

Init ==
    /\ mad_history = <<>>
    /\ files = {}
    /\ pc = "idle"
    /\ fps = 0
    /\ prev_frame = None
    /\ count = 0
    /\ motion_counter = 0
    /\ segment_id = 0
    /\ extracted_data = <<>>
    /\ mad = 0
    /\ threshold = 4 * min_threshold
    /\ is_scene_cut = FALSE
    /\ is_high_motion = FALSE
    /\ runs = 0
    /\ frames_in = <<>>
    /\ history_at_start = <<>>
    /\ scored = <<>>
    /\ qualified = <<>>
    /\ last_run = NoRun
    /\ summaries = <<>>
    /\ nodes = <<>>
    /\ edges = <<>>
    /\ kg_files = [p \in FilePaths |-> NoFile]
    /\ collection = <<>>
    /\ call = NoCall
    /\ result = <<>>
    /\ session_state = InitialSession

\* process_video is entered: the video is opened and the locals are
\* initialised; self.mad_history and the frames directory are left as they are
EnterProcessVideo ==
    /\ pc = "idle"
    /\ runs < MaxRuns
    /\ \E rate \in FpsValues : fps' = rate
    /\ pc' = "loop"
    /\ prev_frame' = None
    /\ extracted_data' = <<>>
    /\ count' = 0
    /\ motion_counter' = 0
    /\ segment_id' = 0
    /\ mad' = 0
    /\ threshold' = 4 * min_threshold
    /\ is_scene_cut' = FALSE
    /\ is_high_motion' = FALSE
    /\ runs' = runs + 1
    /\ frames_in' = <<>>
    /\ history_at_start' = mad_history
    /\ scored' = <<>>
    /\ qualified' = <<>>
    /\ UNCHANGED <<mad_history, files>>

StartRun ==
    /\ EnterProcessVideo
    /\ UNCHANGED last_run
    /\ UNCHANGED downstream_vars

\* variant: the first frame is scored against a black predecessor
ReadFirstFrame_scored ==
    /\ pc = "loop"
    /\ prev_frame = None
    /\ count < MaxFrames
    /\ \E frame \in Levels :
          /\ prev_frame' = <<frame>>
          /\ frames_in' = Append(frames_in, frame)
          /\ mad_history' = UpdateHistory(mad_history, calculate_mad(0, frame))
          /\ scored' = Append(scored, calculate_mad(0, frame))
          /\ qualified' = Append(qualified, FALSE)
    /\ count' = count + 1
    /\ UNCHANGED <<files, pc, fps, motion_counter, segment_id,
                   extracted_data, mad, threshold, is_scene_cut,
                   is_high_motion, runs, history_at_start, last_run>>
    /\ UNCHANGED downstream_vars

\* one iteration of the while loop on the first frame (prev_frame is None)
ReadFirstFrame ==
    /\ pc = "loop"
    /\ prev_frame = None
    /\ count < MaxFrames
    /\ \E frame \in Levels :
          /\ prev_frame' = <<frame>>
          /\ frames_in' = Append(frames_in, frame)
    /\ count' = count + 1
    /\ UNCHANGED <<mad_history, files, pc, fps, motion_counter, segment_id,
                   extracted_data, mad, threshold, is_scene_cut,
                   is_high_motion, runs, history_at_start, scored, qualified,
                   last_run>>
    /\ UNCHANGED downstream_vars

\* one iteration of the while loop on a frame that has a predecessor
ProcessFrame ==
    /\ pc = "loop"
    /\ prev_frame # None
    /\ count < MaxFrames
    /\ \E frame \in Levels :
        LET m    == calculate_mad(prev_frame[1], frame)
            thr  == get_dynamic_threshold(mad_history)
            cut  == ExceedsThreshold(m, thr)
            mc   == UpdateMotionCounter(motion_counter, m, thr)
            high == mc >= motion_persistence
            sid  == IF cut \/ high THEN UpdateSegmentId(segment_id, cut)
                                   ELSE segment_id
            path == FramePath(files, count, fps)
        IN  /\ mad' = m
            /\ threshold' = thr
            /\ is_scene_cut' = cut
            /\ mad_history' = UpdateHistory(mad_history, m)
            /\ scored' = Append(scored, m)
            /\ qualified' = Append(qualified, ExceedsMotionLevel(m, thr))
            /\ motion_counter' = mc
            /\ is_high_motion' = high
            /\ segment_id' = sid
            /\ IF cut \/ high
               THEN /\ files' = files \cup {path}
                    /\ extracted_data' =
                          Append(extracted_data,
                                 KeyframeRecord(count, fps, path, sid, cut))
               ELSE UNCHANGED <<files, extracted_data>>
            /\ prev_frame' = <<frame>>
            /\ frames_in' = Append(frames_in, frame)
    /\ count' = count + 1
    /\ UNCHANGED <<pc, fps, runs, history_at_start, last_run>>
    /\ UNCHANGED downstream_vars

\* cap.read() reports the end of the video: the loop ends and
\* extracted_data is returned
EndRun ==
    /\ pc = "loop"
    /\ pc' = "idle"
    /\ UNCHANGED <<mad_history, files, fps, prev_frame, count, motion_counter,
                   segment_id, extracted_data, mad, threshold, is_scene_cut,
                   is_high_motion, runs, frames_in, history_at_start, scored,
                   qualified, last_run>>
    /\ UNCHANGED downstream_vars

Next == StartRun \/ ReadFirstFrame \/ ProcessFrame \/ EndRun

Spec == Init /\ [][Next]_vars

(* The same program, with the previous invocation's input and result kept  *)
(* for comparison with the current one.                                    *)
StartRunAgain ==
    /\ EnterProcessVideo
    /\ last_run' = [frames |-> frames_in, fps |-> fps,
                    data |-> extracted_data, valid |-> runs > 0]
    /\ UNCHANGED downstream_vars

NextRepeat == StartRunAgain \/ ReadFirstFrame \/ ProcessFrame \/ EndRun

SpecRepeat == Init /\ [][NextRepeat]_vars

(* --------------------- the vector store on its own --------------------- *)
\* batches of one or two frames of one video
StoreBatches ==
    {<<t>> : t \in StoreTimes} \cup {<<t, u>> : t \in StoreTimes, u \in StoreTimes}

AddFrames ==
    \E vid \in StoreVideos, times \in StoreBatches :
        LET data == [i \in 1..Len(times) |-> StoreFrame(vid, times[i])]
        IN  /\ Len(collection) + Len(data) <= MaxStored
            /\ collection' = add_frames(collection, vid, data)
            /\ call' = [op |-> "add_frames", video_id |-> vid, data |-> data]
            /\ result' = <<>>
            /\ UNCHANGED slicer_vars
            /\ UNCHANGED <<session_state, summaries, nodes, edges, kg_files>>

GetTemporalContext ==
    \E best \in StoreTimes, vid \in StoreVideos, w \in StoreWindows :
        /\ result' = get_temporal_context(collection, best, vid, w)
        /\ call' = [op |-> "get_temporal_context", best_match_timestamp |-> best,
                    video_id |-> vid, window_seconds |-> w]
        /\ UNCHANGED slicer_vars
        /\ UNCHANGED <<session_state, summaries, nodes, edges, kg_files, collection>>

NextStore == AddFrames \/ GetTemporalContext

SpecStore == Init /\ [][NextStore]_vars

(* -------------------- the knowledge graph on its own ------------------- *)
\* the summaries handed to build_graph: two labels that differ in case and
\* an empty one
GraphSummary(sid, text, start, end) ==
    [ segment_id           |-> sid,
      summary              |-> text,
      representative_frame |-> <<0, 0, start>>,
      start_time           |-> start,
      end_time             |-> end ]

\* the summaries of segments 0, 1, 2 of one video
ScenarioSummaries ==
    << GraphSummary(0, <<"C", "a", "t">>, 0, 1),
       GraphSummary(1, <<"c", "A", "b">>, 2, 3),
       GraphSummary(2, <<>>, 4, 4) >>

GraphSummaries == {ScenarioSummaries[i] : i \in 1..Len(ScenarioSummaries)}

SummaryLists == ListsUpTo(GraphSummaries, MaxSummaries) \cup {ScenarioSummaries}

Queries == {<<>>, <<"C", "A">>, <<"a", "b">>, <<"z">>}

\* the VideoKnowledgeGraph object as a value
self_kg == [nodes |-> nodes, edges |-> edges]

\* build_graph(S) on the graph object
BuildGraphFrom(S) ==
    LET g == build_graph(self_kg, S)
    IN  /\ nodes' = g.nodes
        /\ edges' = g.edges
        /\ call' = [op |-> "build_graph", segment_summaries |-> S]
        /\ result' = <<>>
        /\ UNCHANGED slicer_vars
        /\ UNCHANGED <<session_state, summaries, kg_files, collection>>

BuildGraph == \E S \in SummaryLists : BuildGraphFrom(S)

SaveGraph ==
    \E path \in SavePaths :
        /\ kg_files' = save_graph(self_kg, kg_files, path)
        /\ call' = [op |-> "save_graph", path |-> path]
        /\ result' = <<>>
        /\ UNCHANGED slicer_vars
        /\ UNCHANGED <<session_state, summaries, nodes, edges, collection>>

LoadGraph ==
    \E path \in KgPaths :
        LET g == load_graph(self_kg, kg_files, path)
        IN  /\ nodes' = g.nodes
            /\ edges' = g.edges
            /\ call' = [op |-> "load_graph", path |-> path]
            /\ result' = <<>>
            /\ UNCHANGED slicer_vars
            /\ UNCHANGED <<session_state, summaries, kg_files, collection>>

SearchGraph ==
    \E query \in Queries :
        /\ result' = search_graph(self_kg, query)
        /\ call' = [op |-> "search_graph", query |-> query]
        /\ UNCHANGED slicer_vars
        /\ UNCHANGED <<session_state, summaries, nodes, edges, kg_files, collection>>

NextGraph == BuildGraph \/ SaveGraph \/ LoadGraph \/ SearchGraph

SpecGraph == Init /\ [][NextGraph]_vars

(* ------------------ VideoIngestor.process_video ------------------------ *)
\* the videos a new ingestor is given: every frame list up to MaxVideoLen of
\* black, white and two dark greys whose differences are 8, 9 and 17
PipelineLevels == {0, 9, 17, 255}

Videos == ListsUpTo(PipelineLevels, MaxVideoLen)

\* process_video of a newly constructed VideoIngestor, from the slicer run to
\* the saved graph (the embeddings of encode_frames are not modelled)
IngestProcessVideo ==
    \E video \in Videos, rate \in FpsValues, kg_path \in SavePaths :
        LET run  == process_video(mad_history, files, video, rate)
            sums == generate_segment_summaries(run.data)
            kg   == build_graph(EmptyGraph, sums)
        IN  /\ call = NoCall
            /\ runs = 0
            /\ pc = "idle"
            /\ mad_history' = run.hist
            /\ files' = run.dir
            /\ extracted_data' = run.data
            /\ frames_in' = video
            /\ fps' = rate
            /\ runs' = runs + 1
            /\ history_at_start' = mad_history
            /\ scored' = run.scored
            /\ qualified' = run.qualified
            /\ summaries' = sums
            /\ kg_files' = save_graph(kg, kg_files, kg_path)
            /\ call' = [op |-> "process_video", video |-> video,
                        extracted_data |-> run.data]
            /\ result' = sums
            /\ UNCHANGED <<pc, prev_frame, count, motion_counter, segment_id,
                           mad, threshold, is_scene_cut, is_high_motion,
                           last_run>>
            /\ UNCHANGED <<nodes, edges, collection, session_state>>

\* records handed to generate_segment_summaries directly: two segments, in
\* any order and with repetitions
DirectRecord(sid, secs, type) ==
    [ timestamp  |-> secs * TicksPerSecond,
      frame_path |-> format_timestamp(secs * TicksPerSecond, TicksPerSecond),
      segment_id |-> sid,
      type       |-> type ]

DirectRecords ==
    { DirectRecord(0, 1, "high_motion"), DirectRecord(0, 2, "high_motion"),
      DirectRecord(0, 3, "scene_cut"),
      DirectRecord(1, 4, "scene_cut"), DirectRecord(1, 5, "high_motion") }

\* generate_segment_summaries called on a newly constructed VideoIngestor
SummarizeDirect ==
    \E data \in ListsUpTo(DirectRecords, MaxRecords) :
            /\ call = NoCall
        /\ runs = 0
        /\ result' = generate_segment_summaries(data)
        /\ call' = [op |-> "generate_segment_summaries", extracted_data |-> data]
        /\ UNCHANGED slicer_vars
        /\ UNCHANGED <<session_state, summaries, nodes, edges, kg_files, collection>>

NextPipeline == IngestProcessVideo \/ SummarizeDirect

SpecPipeline == Init /\ [][NextPipeline]_vars

(* ------------------- the orchestrator and its graph -------------------- *)
\* context windows as get_temporal_context returns them
ContextLists ==
    { <<>>,
      get_temporal_context(
          add_frames(<<>>, "a.mp4", <<StoreFrame("a.mp4", 3), StoreFrame("a.mp4", 1)>>),
          2, "a.mp4", 2) }

GenerateAnswer ==
    \E query \in Queries, context_frames \in ContextLists,
       path \in KgPaths \cup {NoPath} :
        LET out == generate_answer(self_kg, kg_files, query, context_frames, path)
        IN  /\ nodes' = out.kg.nodes
            /\ edges' = out.kg.edges
            /\ result' = out.answer
            /\ call' = [op |-> "generate_answer", query |-> query,
                        context_frames |-> context_frames,
                        knowledge_graph_path |-> path]
            /\ UNCHANGED slicer_vars
            /\ UNCHANGED <<session_state, summaries, kg_files, collection>>

\* the graphs the orchestrator answers from: those of the contiguous parts of
\* the three-segment scenario, the empty one included
AnswerSummaryLists ==
    {SubSeq(ScenarioSummaries, i, j) : i \in 1..Len(ScenarioSummaries),
                                       j \in 0..Len(ScenarioSummaries)}

BuildAnswerGraph == \E S \in AnswerSummaryLists : BuildGraphFrom(S)

NextAnswer == BuildAnswerGraph \/ SaveGraph \/ GenerateAnswer

SpecAnswer == Init /\ [][NextAnswer]_vars

(* --------------------- one session of the application ------------------ *)
\* the videos uploaded in a session: one cut, a stronger cut, no change
SessionVideos == {<<0, 17>>, <<0, 255>>, <<0, 0>>}

\* the questions typed into the query box (non-empty after strip)
SessionQueries == {<<"S", "E", "G">>, <<"z", "z">>}

\* window_seconds of the query panel's call of get_temporal_context
context_window_seconds == 2

\* search_results["metadatas"][0][0]: the metadata of the stored record whose
\* embedding is nearest to the query's; the embeddings are not modelled, so
\* the position of the nearest record is an input
search_top(coll, nearest) == coll[nearest].meta

\* "Process video" pressed for an uploaded file: the cached ingestor
\* processes it and saves its graph, the frames are added to the store and
\* the session remembers the graph path.  collection.add of an empty batch
\* either raises, which ends the script run before the session is updated,
\* or adds nothing
UploadProcess ==
    \E name \in StoreVideos, video \in SessionVideos, rate \in FpsValues,
       empty_add_raises \in BOOLEAN :
        LET run     == process_video(mad_history, files, video, rate)
            sums    == generate_segment_summaries(run.data)
            kg      == build_graph(EmptyGraph, sums)
            kg_path == SessionKgPath(name)
            raised  == run.data = <<>> /\ empty_add_raises
        IN  /\ pc = "idle"
            /\ runs < MaxRuns
            /\ Len(collection) + Len(run.data) <= MaxStored
            /\ mad_history' = run.hist
            /\ files' = run.dir
            /\ extracted_data' = run.data
            /\ frames_in' = video
            /\ fps' = rate
            /\ runs' = runs + 1
            /\ history_at_start' = mad_history
            /\ scored' = run.scored
            /\ qualified' = run.qualified
            /\ summaries' = sums
            /\ kg_files' = save_graph(kg, kg_files, kg_path)
            /\ collection' = add_frames(collection, name, run.data)
            /\ session_state' =
                  IF raised
                  THEN [session_state EXCEPT !.processing_state = "processing"]
                  ELSE [session_state EXCEPT !.processing_state = "done",
                                             !.kg_path = kg_path,
                                             !.current_video_name = name]
            /\ call' = [op |-> "upload", name |-> name, video |-> video,
                        raised |-> raised]
            /\ result' = sums
            /\ UNCHANGED <<pc, prev_frame, count, motion_counter, segment_id,
                           mad, threshold, is_scene_cut, is_high_motion,
                           last_run>>
            /\ UNCHANGED <<nodes, edges>>

\* "Analyze video" pressed with a question: nothing happens without a
\* processed video or with an empty store; otherwise the window around the
\* top match is fetched and the orchestrator answers from the session's graph
AnalyzeVideo ==
    \E query \in SessionQueries, nearest \in 1..Len(collection) :
        LET top_meta       == search_top(collection, nearest)
            timestamp      == top_meta.timestamp
            video_id       == top_meta.video_id
            context_frames == get_temporal_context(collection, timestamp, video_id,
                                  context_window_seconds * TicksPerSecond)
            out            == generate_answer(self_kg, kg_files, query,
                                  context_frames, session_state.kg_path)
        IN  /\ pc = "idle"
            /\ session_state.kg_path # NoPath
            /\ nodes' = out.kg.nodes
            /\ edges' = out.kg.edges
            /\ session_state' = [session_state EXCEPT !.last_query = query,
                                                      !.last_answer = out.answer]
            /\ call' = [op |-> "analyze", query |-> query,
                        timestamp |-> timestamp, video_id |-> video_id,
                        context_frames |-> context_frames,
                        knowledge_graph_path |-> session_state.kg_path]
            /\ result' = out.answer
            /\ UNCHANGED slicer_vars
            /\ UNCHANGED <<summaries, kg_files, collection>>

NextSession == UploadProcess \/ AnalyzeVideo

SpecSession == Init /\ [][NextSession]_vars

(* ======================= properties of the slicer ====================== *)
\* a step that scores a frame transition (a loop iteration with a predecessor)
ScoredStep ==
    /\ pc = "loop" /\ pc' = "loop"
    /\ prev_frame # None
    /\ count' = count + 1

\* the step appended one record to extracted_data and changed nothing before it
AppendedOne ==
    /\ Len(extracted_data') = Len(extracted_data) + 1
    /\ SubSeq(extracted_data', 1, Len(extracted_data)) = extracted_data

\* the last n elements of s (all of s when it is shorter)
LastN(s, n) == IF Len(s) <= n THEN s ELSE SubSeq(s, Len(s) - n + 1, Len(s))

\* the last n transitions of the log q all exceeded 0.8 x their threshold
LastAllQualified(q, n) ==
    /\ Len(q) >= n
    /\ \A i \in (Len(q) - n + 1)..Len(q) : q[i]

\* length of the unbroken run of qualifying transitions at the end of q
RECURSIVE TrailingRun(_)
TrailingRun(q) ==
    IF q = <<>> \/ ~Last(q) THEN 0
    ELSE 1 + TrailingRun(SubSeq(q, 1, Len(q) - 1))

CutRecords(data) == {i \in 1..Len(data) : data[i].type = "scene_cut"}
MotionRecords(data) == {i \in 1..Len(data) : data[i].type = "high_motion"}

\* C1: on every frame transition the segment id grows by exactly 1 when the
\* score exceeds the threshold and is unchanged otherwise; a scene-cut record
\* carries the incremented id, a high-motion record the id held before.
C1_SegmentIdStep ==
    [][ScoredStep =>
          /\ segment_id' = segment_id + (IF 4 * mad' > threshold' THEN 1 ELSE 0)
          /\ Len(extracted_data') > Len(extracted_data) =>
                LET r == Last(extracted_data')
                IN  /\ r.type = "scene_cut" => r.segment_id = segment_id + 1
                    /\ r.type = "high_motion" => r.segment_id = segment_id
                    /\ r.segment_id = segment_id']_vars

\* a high-motion record attached to the segment opened by an earlier scene cut
C1_Witness ==
    \E i \in CutRecords(extracted_data), j \in MotionRecords(extracted_data) :
        /\ i < j
        /\ extracted_data[i].segment_id >= 1
        /\ extracted_data[j].segment_id = extracted_data[i].segment_id

\* C2: a transition appends exactly one record iff it is a scene cut or high
\* motion (the last motion_persistence transitions all qualified) and nothing
\* otherwise; the type is scene_cut whenever the score exceeds the threshold,
\* high_motion otherwise.
C2_RecordIffEvent ==
    [][ScoredStep =>
          LET cut  == 4 * mad' > threshold'
              high == LastAllQualified(qualified', motion_persistence)
          IN  IF cut \/ high
              THEN /\ AppendedOne
                   /\ Last(extracted_data').type =
                         (IF cut THEN "scene_cut" ELSE "high_motion")
              ELSE extracted_data' = extracted_data]_vars

\* a record of type scene_cut appended while the high-motion condition held too
C2_Witness ==
    /\ extracted_data # <<>>
    /\ is_scene_cut /\ is_high_motion
    /\ LastAllQualified(qualified, motion_persistence)
    /\ Last(extracted_data).type = "scene_cut"

\* C3: the motion counter grows by 1 on a transition whose score exceeds
\* 0.8 x its threshold and is 0 after any other transition, so it is the
\* length of the current unbroken run of qualifying transitions; a
\* high_motion record is appended only when the counter is >= motion_persistence,
\* i.e. the last motion_persistence transitions all qualified.
C3_MotionCounter ==
    [][ScoredStep =>
          /\ motion_counter' =
                (IF 5 * mad' > threshold' THEN motion_counter + 1 ELSE 0)
          /\ motion_counter' = TrailingRun(qualified')
          /\ (/\ Len(extracted_data') > Len(extracted_data)
              /\ Last(extracted_data').type = "high_motion")
                => /\ motion_counter' >= motion_persistence
                   /\ LastAllQualified(qualified', motion_persistence)]_vars

\* a high_motion record was appended for a transition that is no scene cut
C3_Witness ==
    /\ extracted_data # <<>>
    /\ Last(extracted_data).type = "high_motion"
    /\ is_high_motion /\ ~is_scene_cut
    /\ motion_counter = motion_persistence

\* C4 (as claimed): after a transition classified as a scene cut the motion
\* counter is 0.
C4_ResetAfterCut ==
    (pc = "loop" /\ scored # <<>> /\ is_scene_cut) => motion_counter = 0

\* C4 (amended): a scene cut counts toward motion persistence and does not
\* reset the counter: after it the counter is its previous value plus 1.
C4_CutCountsTowardMotion ==
    [][(ScoredStep /\ 4 * mad' > threshold')
          => motion_counter' = motion_counter + 1]_vars

\* a scene cut that left accumulated persistence behind for the next transition
C4_Witness ==
    /\ pc = "loop" /\ scored # <<>>
    /\ is_scene_cut
    /\ motion_counter >= 2

\* C5: the rolling history never holds more than history_size scores, every
\* scored transition appends its score (one score per transition read), and
\* the window is the most recent scores in insertion order: the last
\* history_size elements of (window at the start of the run) o (scores of the
\* run); between runs the window is not touched.
C5_RollingWindow ==
    /\ Len(mad_history) <= history_size
    /\ Len(scored) = (IF count = 0 THEN 0 ELSE count - 1)
    /\ Len(scored) = Len(qualified)
    /\ mad_history = LastN(history_at_start \o scored, history_size)

\* an ORDINARY transition pushed its score into a full window (oldest evicted)
C5_Witness ==
    /\ scored # <<>>
    /\ ~is_scene_cut /\ ~is_high_motion
    /\ Len(history_at_start \o scored) > history_size
    /\ Last(mad_history) = Last(scored)
    /\ Head(mad_history) # Head(history_at_start \o scored)

\* a is floor(4 * (mean + k * std)) of the window, stated on squares
IsMeanPlusKStd4(a, hist) ==
    LET n  == Len(hist)
        S  == SumSeq(hist)
        D  == n * SumSq(hist) - S * S
        kk == 16 * threshold_multiplier * threshold_multiplier
        lo == a * n - 4 * S
        hi == (a + 1) * n - 4 * S
    IN  /\ lo <= 0 \/ lo * lo <= kk * D
        /\ hi > 0 /\ hi * hi > kk * D

\* C6: the threshold used for a classification is max(mean + k*std,
\* min_threshold) of the window as it stood before the transition: never below
\* min_threshold, and min_threshold when the window is empty.
C6_Threshold ==
    [][ScoredStep =>
          /\ threshold' >= 4 * min_threshold
          /\ mad_history = <<>> => threshold' = 4 * min_threshold
          /\ (mad_history # <<>> /\ threshold' > 4 * min_threshold)
                => IsMeanPlusKStd4(threshold', mad_history)
          /\ (mad_history # <<>> /\ threshold' = 4 * min_threshold)
                => \E a \in 0..(4 * min_threshold) :
                      IsMeanPlusKStd4(a, mad_history)]_vars

\* a classification used a threshold above the floor, with a non-zero deviation
C6_Witness ==
    /\ scored # <<>>
    /\ threshold > 4 * min_threshold
    /\ threshold % 4 # 0

\* C7 (as claimed): every invocation starts with segment id 0, motion counter
\* 0 and an empty rolling history.
C7_FreshStart ==
    (pc = "loop" /\ count = 0)
        => /\ segment_id = 0
           /\ motion_counter = 0
           /\ mad_history = <<>>

\* what the claim compares: timestamp, segment id and event type of a record
Segmentation(data) ==
    [i \in 1..Len(data) |->
        <<data[i].timestamp, data[i].segment_id, data[i].type>>]

\* C8 (as claimed): two consecutive runs of the same instance over the same
\* frames at the same rate return the same (timestamp, segment_id, type) list.
C8_Deterministic ==
    (/\ pc = "idle"
     /\ last_run.valid
     /\ last_run.frames = frames_in
     /\ last_run.fps = fps)
        => Segmentation(extracted_data) = Segmentation(last_run.data)

MaxSegmentId(data) ==
    CHOOSE m \in {data[i].segment_id : i \in 1..Len(data)} :
        \A i \in 1..Len(data) : data[i].segment_id <= m

\* C9 (as claimed): in a returned list with a scene cut, the number of
\* scene_cut records is (largest segment id) - (segment id of the first
\* record); without a scene cut every record has segment id 0.
C9_CutCountFromFirst ==
    pc = "idle" =>
        IF CutRecords(extracted_data) # {}
        THEN Cardinality(CutRecords(extracted_data)) =
                MaxSegmentId(extracted_data) - extracted_data[1].segment_id
        ELSE \A i \in 1..Len(extracted_data) : extracted_data[i].segment_id = 0

\* C9 (amended): the number of scene_cut records is the largest segment id;
\* measured from the first record it is (largest - first) + 1 when the first
\* record is itself a scene cut and (largest - first) when it is high motion;
\* without a scene cut every record has segment id 0.
C9_CutCount ==
    IF CutRecords(extracted_data) # {}
    THEN /\ Cardinality(CutRecords(extracted_data)) =
               MaxSegmentId(extracted_data)
         /\ Cardinality(CutRecords(extracted_data)) =
               MaxSegmentId(extracted_data) - extracted_data[1].segment_id
               + (IF extracted_data[1].type = "scene_cut" THEN 1 ELSE 0)
    ELSE \A i \in 1..Len(extracted_data) : extracted_data[i].segment_id = 0

\* a returned list that starts with a scene cut and also holds a high-motion
\* record of the segment that cut opened
C9_Witness ==
    /\ pc = "idle"
    /\ extracted_data # <<>>
    /\ extracted_data[1].type = "scene_cut"
    /\ \E j \in MotionRecords(extracted_data) :
          extracted_data[j].segment_id = MaxSegmentId(extracted_data)

\* C10 (as claimed): the path a retained frame is written to did not exist in
\* the frames directory before the write.
C10_NoOverwrite ==
    [][(ScoredStep /\ Len(extracted_data') > Len(extracted_data))
          => Last(extracted_data').frame_path \notin files]_vars

(* ==================== properties of the vector store =================== *)
\* number of positions of the sequence s that hold x
Occurrences(s, x) == Cardinality({i \in 1..Len(s) : s[i] = x})

StoredMetas == [i \in 1..Len(collection) |-> collection[i].meta]

\* C11: get_temporal_context(anchor, video_id, w) returns exactly the stored
\* metadata records of that video with anchor - w <= timestamp <= anchor + w
\* (each as often as it is stored, none other), in ascending timestamp order;
\* with no such record the result is the empty list.
C11_TemporalContext ==
    call.op = "get_temporal_context" =>
        LET lo == call.best_match_timestamp - call.window_seconds
            hi == call.best_match_timestamp + call.window_seconds
            Wanted(m) == /\ m.video_id = call.video_id
                         /\ lo <= m.timestamp /\ m.timestamp <= hi
        IN  /\ \A i \in 1..Len(result) :
                  /\ Wanted(result[i])
                  /\ Occurrences(result, result[i]) =
                        Occurrences(StoredMetas, result[i])
            /\ \A i \in 1..Len(collection) :
                  Wanted(collection[i].meta) =>
                     \E j \in 1..Len(result) : result[j] = collection[i].meta
            /\ \A i, j \in 1..Len(result) :
                  i < j => result[i].timestamp <= result[j].timestamp
            /\ (\A i \in 1..Len(collection) : ~Wanted(collection[i].meta))
                  => result = <<>>

\* a window that returns a record on its upper bound out of stored order, while
\* the store also holds a record of the video outside the window and a record
\* of another video inside it
C11_Witness ==
    /\ call.op = "get_temporal_context"
    /\ call.window_seconds > 0
    /\ Len(result) = 2
    /\ result[2].timestamp = call.best_match_timestamp + call.window_seconds
    /\ result[1].timestamp < result[2].timestamp
    /\ \E i, j \in 1..Len(collection) :
          /\ i < j
          /\ collection[i].meta = result[2]
          /\ collection[j].meta = result[1]
    /\ \E i \in 1..Len(collection) :
          /\ collection[i].meta.video_id # call.video_id
          /\ Abs(collection[i].meta.timestamp - call.best_match_timestamp)
                <= call.window_seconds

(* =================== properties of the knowledge graph ================= *)
\* C12: after build_graph(summaries) the graph has one node per summary, in
\* input order, with id "node_" + segment_id; the number of edges is
\* max(number of nodes - 1, 0) and the i-th edge is a FOLLOWS edge from the
\* i-th node to the (i+1)-th node.
C12_BuildGraph ==
    call.op = "build_graph" =>
        LET S == call.segment_summaries
        IN  /\ Len(nodes) = Len(S)
            /\ \A i \in 1..Len(S) :
                  /\ nodes[i].id =
                        <<"n", "o", "d", "e", "_">> \o Digits(S[i].segment_id)
                  /\ nodes[i].label = S[i].summary
            /\ Len(edges) = Max(Len(nodes) - 1, 0)
            /\ \A i \in 1..Len(edges) :
                  /\ edges[i].source = nodes[i].id
                  /\ edges[i].target = nodes[i + 1].id
                  /\ edges[i].type = "FOLLOWS"

\* the scenario of the three summaries with ids 0, 1, 2:
\* node_0 -> node_1, node_1 -> node_2
C12_Witness ==
    /\ call.op = "build_graph"
    /\ Len(nodes) = 3
    /\ Len(edges) = 2
    /\ nodes[1].id = <<"n", "o", "d", "e", "_", "0">>
    /\ edges[1].target = <<"n", "o", "d", "e", "_", "1">>
    /\ edges[2].source = <<"n", "o", "d", "e", "_", "1">>
    /\ edges[2].target = <<"n", "o", "d", "e", "_", "2">>

\* the graph <<ns, es>> is a simple path
NodeIds(ns) == {ns[i].id : i \in 1..Len(ns)}

RECURSIVE ReachIn(_, _, _)
ReachIn(es, from, n) ==
    IF n = 0 THEN {}
    ELSE LET direct == {es[i].target : i \in {j \in 1..Len(es) : es[j].source \in from}}
         IN  direct \cup ReachIn(es, direct, n - 1)

SimplePath(ns, es) ==
    /\ \A i, j \in 1..Len(ns) : i # j => ns[i].id # ns[j].id
    /\ \A i, j \in 1..Len(es) : i # j => /\ es[i].source # es[j].source
                                         /\ es[i].target # es[j].target
    /\ \A i \in 1..Len(es) : es[i].source # es[i].target
    /\ \A id \in NodeIds(ns) : id \notin ReachIn(es, {id}, Len(es))

DistinctSegmentIds(S) ==
    \A i, j \in 1..Len(S) : i # j => S[i].segment_id # S[j].segment_id

\* C13 as stated: the graph left by build_graph is a simple path for every
\* list of summaries build_graph accepts.
C13_SimplePathAlways ==
    call.op = "build_graph" => SimplePath(nodes, edges)

\* C13: the graph left by build_graph is a simple path (node ids pairwise
\* distinct, no node the source or the target of two edges, no self-loop, no
\* cycle) for every list of summaries whose segment ids are pairwise distinct.
C13_SimplePath ==
    (call.op = "build_graph" /\ DistinctSegmentIds(call.segment_summaries))
        => SimplePath(nodes, edges)

C13_Witness ==
    /\ call.op = "build_graph"
    /\ DistinctSegmentIds(call.segment_summaries)
    /\ Len(edges) = 2
    /\ SimplePath(nodes, edges)

\* C14: save_graph followed by load_graph of the same path reproduces the
\* graph: the written file reads back as the saved nodes and edges, field for
\* field and in the same order, a load of an existing file leaves the graph
\* the file holds, and saving the loaded graph again gives the same content.
C14_SaveLoadRoundTrip ==
    [][ /\ call'.op = "save_graph" =>
              /\ json_load(kg_files'[call'.path]) = self_kg
              /\ nodes' = nodes /\ edges' = edges
        /\ (call'.op = "load_graph" /\ kg_files[call'.path] # NoFile) =>
              /\ [nodes |-> nodes', edges |-> edges'] = json_load(kg_files[call'.path])
              /\ save_graph([nodes |-> nodes', edges |-> edges'],
                            kg_files, call'.path) = kg_files
              /\ kg_files' = kg_files ]_vars

\* a three-node graph read back from its file after another graph was built
C14_Witness ==
    /\ call.op = "load_graph"
    /\ kg_files[call.path] # NoFile
    /\ Len(nodes) = 3
    /\ Len(edges) = 2
    /\ nodes[1].start_time # nodes[1].end_time
    /\ json_dump(self_kg) = kg_files[call.path]

\* C15: load_graph on a path where no file exists raises nothing and leaves
\* the nodes and edges exactly as they were before the call.
C15_LoadMissing ==
    [][ (call'.op = "load_graph" /\ kg_files[call'.path] = NoFile) =>
            /\ nodes' = nodes
            /\ edges' = edges
            /\ kg_files' = kg_files ]_vars

\* a missing file loaded into a graph that holds nodes and edges
C15_Witness ==
    /\ call.op = "load_graph"
    /\ kg_files[call.path] = NoFile
    /\ Len(nodes) >= 2
    /\ Len(edges) >= 1

\* C16: build_graph replaces the held graph: whatever was built or loaded
\* before, build_graph(S) leaves exactly the nodes and edges that
\* build_graph(S) produces on a fresh VideoKnowledgeGraph.
C16_BuildReplaces ==
    [][ call'.op = "build_graph" =>
            /\ [nodes |-> nodes', edges |-> edges'] =
                  build_graph(EmptyGraph, call'.segment_summaries)
            /\ Len(nodes') = Len(call'.segment_summaries) ]_vars

\* a graph built after a different, non-empty graph was built and saved
C16_Witness ==
    /\ call.op = "build_graph"
    /\ kg_files["video_kg.json"] # NoFile
    /\ Len(json_load(kg_files["video_kg.json"]).nodes) >= 2
    /\ Len(nodes) = 1
    /\ json_load(kg_files["video_kg.json"]).nodes[1] # nodes[1]

\* the label of the node contains the query when both are lower-cased
LabelMatches(node, query) ==
    \E k \in 0..(Len(node.label) - Len(query)) :
        \A i \in 1..Len(query) :
            LowerChar(node.label[k + i]) = LowerChar(query[i])

\* the subsequence of the node list ns whose labels match the query
MatchingNodes(ns, query) ==
    LET idx == {i \in 1..Len(ns) : LabelMatches(ns[i], query)}
        Nth(k) == CHOOSE i \in idx : Cardinality({j \in idx : j <= i}) = k
    IN  [k \in 1..Cardinality(idx) |-> ns[Nth(k)]]

\* C17: search_graph(query) returns exactly the nodes whose label contains the
\* query as a substring when both are lower-cased, in the order of the node
\* list, and leaves the graph unchanged; the result is the empty list when no
\* label matches or the graph has no nodes.
C17_SearchGraph ==
    [][ call'.op = "search_graph" =>
            /\ result' = MatchingNodes(nodes, call'.query)
            /\ (nodes = <<>> => result' = <<>>)
            /\ nodes' = nodes
            /\ edges' = edges ]_vars

\* a query in upper case that finds the first two of three nodes
C17_Witness ==
    /\ call.op = "search_graph"
    /\ call.query = <<"C", "A">>
    /\ Len(nodes) = 3
    /\ Len(result) = 2
    /\ result[1] = nodes[1]
    /\ result[2] = nodes[2]
    /\ ~LabelMatches(nodes[3], call.query)

(* ====================== properties of the summaries ==================== *)
\* positions of the records of segment sid in data
GroupIdx(data, sid) == {i \in 1..Len(data) : data[i].segment_id = sid}

\* the n-th smallest element of a set of integers
NthOf(idx, n) == CHOOSE i \in idx : Cardinality({j \in idx : j <= i}) = n

\* C18: generate_segment_summaries returns exactly one summary per distinct
\* segment_id of the input records, in the order in which the ids first occur;
\* for the records of a slicer run this order is ascending segment_id.
C18_OnePerSegment ==
    call.op \in {"generate_segment_summaries", "process_video"} =>
        LET data == call.extracted_data
            First(sid) == NthOf(GroupIdx(data, sid), 1)
        IN  /\ \A i, j \in 1..Len(result) :
                  i # j => result[i].segment_id # result[j].segment_id
            /\ {result[i].segment_id : i \in 1..Len(result)} =
                  {data[i].segment_id : i \in 1..Len(data)}
            /\ \A i, j \in 1..Len(result) :
                  i < j => First(result[i].segment_id) < First(result[j].segment_id)
            /\ call.op = "process_video" =>
                  \A i, j \in 1..Len(result) :
                      i < j => result[i].segment_id < result[j].segment_id

\* three records whose ids first occur in descending order: two summaries,
\* segment 1 before segment 0
C18_Witness ==
    /\ call.op = "generate_segment_summaries"
    /\ Len(call.extracted_data) = 3
    /\ call.extracted_data[1].segment_id = 1
    /\ call.extracted_data[2].segment_id = 0
    /\ call.extracted_data[3].segment_id = 1
    /\ Len(result) = 2
    /\ result[1].segment_id = 1
    /\ result[2].segment_id = 0

\* C19: for each segment group of k records (in input order) the summary's
\* start_time is the timestamp of the group's first record, its end_time the
\* timestamp of the group's last record, and its representative frame the
\* frame of the record at index k div 2 of the group (counted from 0).
C19_GroupFields ==
    call.op \in {"generate_segment_summaries", "process_video"} =>
        \A s \in 1..Len(result) :
            LET data == call.extracted_data
                idx  == GroupIdx(data, result[s].segment_id)
                k    == Cardinality(idx)
            IN  /\ k >= 1
                /\ result[s].start_time = data[NthOf(idx, 1)].timestamp
                /\ result[s].end_time = data[NthOf(idx, k)].timestamp
                /\ result[s].representative_frame =
                      data[NthOf(idx, (k \div 2) + 1)].frame_path

\* a group of two records between which a record of another segment lies:
\* the representative is the group's second record
C19_Witness ==
    /\ call.op = "generate_segment_summaries"
    /\ Len(call.extracted_data) = 3
    /\ call.extracted_data[1].segment_id = call.extracted_data[3].segment_id
    /\ call.extracted_data[2].segment_id # call.extracted_data[1].segment_id
    /\ call.extracted_data[1].timestamp # call.extracted_data[3].timestamp
    /\ result[1].representative_frame = call.extracted_data[3].frame_path
    /\ result[1].start_time = call.extracted_data[1].timestamp
    /\ result[1].end_time = call.extracted_data[3].timestamp

(* ======================= properties of the answer ====================== *)
\* the text has no character at all
IsEmptyText(text) ==
    \A i \in 1..Len(text) : text[i][2] = "" \/ text[i] = Chars(<<>>)

\* C20: generate_answer returns the no-evidence message exactly when the graph
\* search for the query yields no node and the context-frame list is empty;
\* in every other case it returns a non-empty string different from that
\* message.
C20_NoEvidence ==
    call.op = "generate_answer" =>
        LET noNode  == \A i \in 1..Len(nodes) : ~LabelMatches(nodes[i], call.query)
            noFrame == call.context_frames = <<>>
        IN  /\ (result = NoEvidenceMessage) <=> (noNode /\ noFrame)
            /\ ~(noNode /\ noFrame) =>
                  /\ ~IsEmptyText(result)
                  /\ result # NoEvidenceMessage

\* a graph read from its file in which no label contains the query, and no
\* context frame: the no-evidence message
C20_Witness ==
    /\ call.op = "generate_answer"
    /\ call.knowledge_graph_path = "video_kg.json"
    /\ kg_files["video_kg.json"] # NoFile
    /\ Len(nodes) >= 2
    /\ call.query = <<"z">>
    /\ call.context_frames = <<>>
    /\ result = NoEvidenceMessage

(* ================= further properties of the slicer run ================ *)
\* C21: the first frame read in a run is never classified or stored: no score
\* is appended to the history and no record is produced for it, so after
\* n >= 1 frames have been read exactly n - 1 transitions have been scored and
\* every record's timestamp belongs to a frame with index >= 1.
C21_FirstFrameSkipped ==
    runs >= 1 =>
        /\ Len(frames_in) = count
        /\ count >= 1 => Len(scored) = count - 1
        /\ count <= 1 => /\ scored = <<>>
                         /\ mad_history = history_at_start
                         /\ extracted_data = <<>>
        /\ Len(extracted_data) <= Len(scored)
        /\ \A k \in 1..Len(extracted_data) :
              \E i \in 1..(count - 1) :
                  extracted_data[k].timestamp = timestamp_secs(i, fps)

\* only the first frame of a later run has been read, a white one: the
\* history is the one left by the earlier run and there is no record
C21_Witness ==
    /\ runs = 2
    /\ pc = "loop"
    /\ count = 1
    /\ prev_frame = <<18>>
    /\ history_at_start # <<>>
    /\ mad_history = history_at_start
    /\ extracted_data = <<>>

\* the video is one or more black frames followed by one or more white frames
BlackThenWhite(video) ==
    \E k \in 1..(Len(video) - 1) :
        \A i \in 1..Len(video) : video[i] = (IF i <= k THEN 0 ELSE 255)

\* C22: on a fresh slicer with the default configuration, a video of one or
\* more black frames followed by one or more white frames yields exactly one
\* record: type scene_cut, segment_id 1, at the first white frame.
C22_BlackWhite ==
    (call.op = "process_video" /\ BlackThenWhite(call.video)) =>
        LET k == Cardinality({i \in 1..Len(call.video) : call.video[i] = 0})
        IN  /\ Len(extracted_data) = 1
            /\ extracted_data[1].type = "scene_cut"
            /\ extracted_data[1].segment_id = 1
            /\ extracted_data[1].timestamp * fps = k * TicksPerSecond

\* two black frames, then three white ones
C22_Witness ==
    /\ call.op = "process_video"
    /\ call.video = <<0, 0, 255, 255, 255>>
    /\ Len(extracted_data) = 1
    /\ extracted_data[1].type = "scene_cut"
    /\ Len(result) = 1

\* the dissimilarity scores of the transitions of a video of uniform frames
VideoScores(video) ==
    [i \in 1..(IF Len(video) = 0 THEN 0 ELSE Len(video) - 1) |->
        Abs(video[i + 1] - video[i])]

\* C23: a video whose transitions all have zero dissimilarity (more generally,
\* scores never above 0.8 x min_threshold) yields zero records, and
\* generate_segment_summaries on the resulting empty list returns an empty
\* list.
C23_QuietVideo ==
    /\ (/\ call.op = "process_video"
        /\ \A i \in 1..Len(VideoScores(call.video)) :
              5 * VideoScores(call.video)[i] <= 4 * min_threshold)
          => /\ extracted_data = <<>>
             /\ call.extracted_data = <<>>
             /\ result = <<>>
    /\ (/\ call.op \in {"process_video", "generate_segment_summaries"}
        /\ call.extracted_data = <<>>)
          => result = <<>>

\* four frames whose three transitions all score 8, just below the motion level
C23_Witness ==
    /\ call.op = "process_video"
    /\ Len(call.video) = 4
    /\ \A i \in 1..3 : VideoScores(call.video)[i] = 8
    /\ extracted_data = <<>>
    /\ result = <<>>

\* s is a prefix of t
IsPrefix(s, t) == Len(s) <= Len(t) /\ SubSeq(t, 1, Len(s)) = s

\* C24: the record list of a run is append-only: the records produced after
\* reading any prefix of the frame stream are a prefix of the records of the
\* full pass.
C24_AppendOnly ==
    call.op = "process_video" =>
        \A n \in 0..Len(call.video) :
            IsPrefix(process_video(history_at_start, {},
                                   SubSeq(call.video, 1, n), fps).data,
                     extracted_data)

\* a pass of three records, the first two of which a shorter pass produced
C24_Witness ==
    /\ call.op = "process_video"
    /\ Len(extracted_data) = 3
    /\ \E n \in 1..(Len(call.video) - 1) :
          Len(process_video(history_at_start, {},
                            SubSeq(call.video, 1, n), fps).data) = 2

\* C25: in the record list returned by process_video, timestamps are strictly
\* increasing and segment ids are non-decreasing from one record to the next.
C25_Monotone ==
    call.op = "process_video" =>
        \A i \in 1..(Len(extracted_data) - 1) :
            /\ extracted_data[i].timestamp < extracted_data[i + 1].timestamp
            /\ extracted_data[i].segment_id <= extracted_data[i + 1].segment_id

\* three records: two of one segment, then the cut that opens the next
C25_Witness ==
    /\ call.op = "process_video"
    /\ Len(extracted_data) = 3
    /\ extracted_data[1].segment_id = extracted_data[2].segment_id
    /\ extracted_data[2].segment_id < extracted_data[3].segment_id
    /\ extracted_data[1].timestamp < extracted_data[2].timestamp

\* the rolling history as it stood before the newest score was appended
HistoryBeforeLast ==
    LastN(history_at_start \o SubSeq(scored, 1, Len(scored) - 1), history_size)

\* C26: the threshold used to classify a transition is computed from the
\* rolling history as it stood before that transition's own score was
\* appended, and the same threshold value is used for the scene-cut test
\* (score > threshold) and the high-motion test (score > 0.8 x threshold).
C26_ThresholdBeforeAppend ==
    (runs >= 1 /\ scored # <<>>) =>
        /\ mad = Last(scored)
        /\ threshold = get_dynamic_threshold(HistoryBeforeLast)
        /\ is_scene_cut = (4 * mad > threshold)
        /\ Last(qualified) = (5 * mad > threshold)

\* a transition classified with a threshold above the minimum that the history
\* including its own score would not give, and on which the two tests differ
C26_Witness ==
    /\ runs >= 1
    /\ scored # <<>>
    /\ threshold > 4 * min_threshold
    /\ threshold # get_dynamic_threshold(mad_history)
    /\ ~is_scene_cut
    /\ Last(qualified)
    /\ 5 * mad <= get_dynamic_threshold(mad_history)

\* the threshold that classified transition i of the run, its two tests, and
\* the record of the frame the transition leads to
ThresholdAt(i) ==
    get_dynamic_threshold(
        LastN(history_at_start \o SubSeq(scored, 1, i - 1), history_size))
CutAt(i) == 4 * scored[i] > ThresholdAt(i)
QualifiesAt(i) == 5 * scored[i] > ThresholdAt(i)
RecordsAt(i) ==
    {k \in 1..Len(extracted_data) :
        extracted_data[k].timestamp = timestamp_secs(i, fps)}

\* transitions a..b all qualify and the counter was 0 before a
RunFrom(a, b) ==
    /\ a <= b
    /\ \A i \in a..b : QualifiesAt(i)
    /\ a = 1 \/ ~QualifiesAt(a - 1)

\* C27 as stated: an unbroken run of n >= motion_persistence qualifying
\* transitions yields n - motion_persistence + 1 records.
C27_RunRecordCount ==
    call.op = "process_video" =>
        \A a, b \in 1..Len(scored) :
            (/\ RunFrom(a, b)
             /\ b = Len(scored) \/ ~QualifiesAt(b + 1)
             /\ b - a + 1 >= motion_persistence)
               => Cardinality(UNION {RecordsAt(i) : i \in a..b})
                     = (b - a + 1) - motion_persistence + 1

\* C27: the motion counter is not reset when a record is emitted: in an
\* unbroken run of qualifying transitions every transition from the
\* motion_persistence-th onward produces exactly one record (high_motion
\* unless the transition is also a scene cut), n - motion_persistence + 1 of
\* them in a run of n; an earlier transition of the run produces a record
\* only when it is a scene cut.
C27_RunRecords ==
    call.op = "process_video" =>
        \A a, b \in 1..Len(scored) :
            RunFrom(a, b) =>
                /\ \A i \in a..b :
                      /\ Cardinality(RecordsAt(i)) =
                            (IF i - a + 1 >= motion_persistence \/ CutAt(i)
                             THEN 1 ELSE 0)
                      /\ \A k \in RecordsAt(i) :
                            extracted_data[k].type =
                               (IF CutAt(i) THEN "scene_cut" ELSE "high_motion")
                /\ b - a + 1 >= motion_persistence =>
                      Cardinality(UNION {RecordsAt(i) :
                                           i \in (a + motion_persistence - 1)..b})
                         = (b - a + 1) - motion_persistence + 1

\* a run of four qualifying transitions without a scene cut: records for the
\* third and the fourth
C27_Witness ==
    /\ call.op = "process_video"
    /\ Len(scored) = 4
    /\ RunFrom(1, 4)
    /\ \A i \in 1..4 : ~CutAt(i)
    /\ Len(extracted_data) = 2
    /\ RecordsAt(3) = {1}
    /\ RecordsAt(4) = {2}

SegmentIds(data) == {data[k].segment_id : k \in 1..Len(data)}

\* C28: in the record list of a single run the segment ids that occur form a
\* gap-free integer range, every segment with id >= 1 contains exactly one
\* scene_cut record and that record is the segment's first member, and
\* segment 0 (if present) contains only high_motion records.
C28_SegmentShape ==
    call.op = "process_video" =>
        LET data == extracted_data
            ids  == SegmentIds(data)
        IN  /\ \A s, t \in ids : \A u \in s..t : u \in ids
            /\ \A s \in ids :
                  LET members == GroupIdx(data, s)
                      cuts    == members \cap CutRecords(data)
                  IN  IF s >= 1
                      THEN /\ Cardinality(cuts) = 1
                           /\ cuts = {NthOf(members, 1)}
                      ELSE /\ s = 0
                           /\ cuts = {}

\* a run with a high-motion record in segment 0 and the cut that opens
\* segment 1
C28_Witness ==
    /\ call.op = "process_video"
    /\ SegmentIds(extracted_data) = {0, 1}
    /\ extracted_data[1].type = "high_motion"
    /\ Last(extracted_data).type = "scene_cut"

\* the nodes of the graph file written by process_video
SavedNodes == json_load(kg_files["video_kg.json"]).nodes

\* C29: for the summaries built from the records of one slicer run, every
\* summary has start_time <= end_time and the end_time of a summary is
\* strictly less than the start_time of the next, so the node order of the
\* graph is chronological order.
C29_SummariesInTime ==
    call.op = "process_video" =>
        /\ \A i \in 1..Len(result) : result[i].start_time <= result[i].end_time
        /\ \A i \in 1..(Len(result) - 1) :
              result[i].end_time < result[i + 1].start_time
        /\ Len(SavedNodes) = Len(result)
        /\ \A i \in 1..Len(SavedNodes) :
              /\ SavedNodes[i].start_time = result[i].start_time
              /\ SavedNodes[i].end_time = result[i].end_time
        /\ \A i \in 1..(Len(SavedNodes) - 1) :
              SavedNodes[i].end_time < SavedNodes[i + 1].start_time

\* two summaries, the first spanning two records
C29_Witness ==
    /\ call.op = "process_video"
    /\ Len(result) = 2
    /\ result[1].start_time < result[1].end_time
    /\ result[1].end_time < result[2].start_time
    /\ Len(SavedNodes) = 2

\* the metadata add_frames derives from a batch
BatchMetas(video_id, data) ==
    [i \in 1..Len(data) |-> [ video_id   |-> video_id,
                              timestamp  |-> data[i].timestamp,
                              frame_path |-> data[i].frame_path ]]

\* the collection holds one batch of distinct frames of one video, added twice
IngestedTwice(coll) ==
    /\ Len(coll) >= 2
    /\ Len(coll) % 2 = 0
    /\ LET h == Len(coll) \div 2
       IN  /\ \A i \in 1..h : coll[i].meta = coll[i + h].meta
           /\ \A i, j \in 1..h :
                 /\ coll[i].meta.video_id = coll[j].meta.video_id
                 /\ (i # j => coll[i].meta # coll[j].meta)

\* C30: add_frames is purely additive: each call inserts one metadata record
\* per input frame under a fresh id and never replaces or removes a stored
\* record, so after the same video_id has been ingested twice the store holds
\* two records per frame and get_temporal_context returns every in-window
\* frame twice.
C30_PurelyAdditive ==
    [][ /\ call'.op = "add_frames" =>
              LET n     == Len(collection)
                  metas == BatchMetas(call'.video_id, call'.data)
              IN  /\ Len(collection') = n + Len(metas)
                  /\ SubSeq(collection', 1, n) = collection
                  /\ \A i \in 1..Len(metas) :
                        /\ collection'[n + i].meta = metas[i]
                        /\ \A j \in 1..Len(collection') :
                              j # n + i => collection'[j].id # collection'[n + i].id
                  /\ \A i \in 1..Len(collection') :
                        Occurrences(StoredMetas', collection'[i].meta) =
                            Occurrences(StoredMetas, collection'[i].meta)
                              + Occurrences(metas, collection'[i].meta)
        /\ call'.op = "get_temporal_context" =>
              /\ collection' = collection
              /\ \A i \in 1..Len(result') :
                    Occurrences(result', result'[i]) =
                        Occurrences(StoredMetas, result'[i])
              /\ IngestedTwice(collection) =>
                    /\ \A i \in 1..Len(collection) :
                          Occurrences(StoredMetas, collection[i].meta) = 2
                    /\ \A i \in 1..Len(result') :
                          Occurrences(result', result'[i]) = 2 ]_vars

\* a frame added twice for one video, and a query whose window holds it: two
\* records come back, stored under different ids
C30_Witness ==
    /\ call.op = "get_temporal_context"
    /\ IngestedTwice(collection)
    /\ Len(collection) = 2
    /\ collection[1].id # collection[2].id
    /\ Len(result) = 2
    /\ result[1] = result[2]
    /\ result[1] = collection[1].meta

(* ==================== properties of the session ======================== *)
\* the uploaded file whose graph is kept at the path
VideoOfKgPath(path) == CHOOSE name \in StoreVideos : SessionKgPath(name) = path

\* C31: after any sequence of process-video and query operations in one
\* session, the evidence used to answer a query refers to a single video:
\* the video_id of the context window taken from the top vector match is the
\* video whose knowledge graph (the session's kg_path, the graph held by the
\* orchestrator after the answer) is searched for that answer.
C31_SingleVideo ==
    call.op = "analyze" =>
        /\ call.video_id = VideoOfKgPath(call.knowledge_graph_path)
        /\ \A i \in 1..Len(call.context_frames) :
              call.context_frames[i].video_id
                  = VideoOfKgPath(call.knowledge_graph_path)
        /\ self_kg = json_load(kg_files[SessionKgPath(call.video_id)])

====
